---- MODULE Spec2Model ----
(***************************************************************************)
(* Model of the srg rhythm game: the chart lexer and parser (sheet.rs,     *)
(* Projectile::parse in game.rs) and the per-frame simulation              *)
(* (GameState::update in game.rs).                                         *)
(*                                                                         *)
(* f32 values are modelled as exact rationals <<n, d>> in lowest terms     *)
(* with d > 0.  An atom of the chart source is a sequence of one-character *)
(* strings, so that find/slice/parse act on it as they do in the code.     *)
(***************************************************************************)
EXTENDS Integers, Sequences, FiniteSets, TLC

----------------------------------------------------------------------------
(* Bounds *)

\* longest atom enumerated over Alphabet for the lexer
MaxAtomLen == 3
\* most whole triples in the body of an enumerated chart source
MaxTriples == 2
\* frames of one run after which the model stops advancing time
MaxFrames == 4
\* largest count of fourths, beats or bars in an enumerated TimeOffset
MaxUnits == 4

----------------------------------------------------------------------------
(* Rational arithmetic standing in for f32 *)

Abs(x) == IF x < 0 THEN -x ELSE x

RECURSIVE GCD(_, _)
GCD(a, b) == IF b = 0 THEN a ELSE GCD(b, a % b)

Norm(n, d) ==
    LET g == GCD(Abs(n), Abs(d))
        s == IF d < 0 THEN -1 ELSE 1
    IN  <<(s * n) \div g, (s * d) \div g>>

R(n) == <<n, 1>>
RAdd(a, b) == Norm(a[1] * b[2] + b[1] * a[2], a[2] * b[2])
RSub(a, b) == Norm(a[1] * b[2] - b[1] * a[2], a[2] * b[2])
RMul(a, b) == Norm(a[1] * b[1], a[2] * b[2])
RDiv(a, b) == Norm(a[1] * b[2], a[2] * b[1])
RLt(a, b) == a[1] * b[2] < b[1] * a[2]
RLe(a, b) == a[1] * b[2] <= b[1] * a[2]
RMax(a, b) == IF RLt(a, b) THEN b ELSE a

----------------------------------------------------------------------------
(* Strings *)

Digits == <<"0", "1", "2", "3", "4", "5", "6", "7", "8", "9">>

IsDigit(c) == \E i \in 1..10 : Digits[i] = c

DigitVal(c) == (CHOOSE i \in 1..10 : Digits[i] = c) - 1

AllDigits(s) == \A i \in 1..Len(s) : IsDigit(s[i])

RECURSIVE DecVal(_)
DecVal(s) ==
    IF s = <<>> THEN 0
    ELSE 10 * DecVal(SubSeq(s, 1, Len(s) - 1)) + DigitVal(s[Len(s)])

RECURSIVE Pow10(_)
Pow10(k) == IF k = 0 THEN 1 ELSE 10 * Pow10(k - 1)

\* str::find of a one-character pattern: the first index, 0 for None
Find(s, c) ==
    IF \E i \in 1..Len(s) : s[i] = c
    THEN CHOOSE i \in 1..Len(s) : s[i] = c /\ \A j \in 1..(i - 1) : s[j] # c
    ELSE 0

\* str::parse::<u32>: an optional '+', then one or more digits
ParseU32(s) ==
    LET body == IF s # <<>> /\ s[1] = "+" THEN Tail(s) ELSE s
    IN  IF body # <<>> /\ AllDigits(body)
        THEN [ok |-> TRUE, val |-> DecVal(body)]
        ELSE [ok |-> FALSE, val |-> 0]

\* str::parse::<f32>: an optional sign, digits with at most one '.', and
\* at least one digit.  Exponents, inf and nan need letters outside the
\* enumerated alphabet.
ParseF32(s) ==
    LET signed == s # <<>> /\ s[1] \in {"+", "-"}
        body == IF signed THEN Tail(s) ELSE s
        dot == Find(body, ".")
        ip == IF dot = 0 THEN body ELSE SubSeq(body, 1, dot - 1)
        fp == IF dot = 0 THEN <<>> ELSE SubSeq(body, dot + 1, Len(body))
        mag == Norm(DecVal(ip) * Pow10(Len(fp)) + DecVal(fp), Pow10(Len(fp)))
    IN  IF AllDigits(ip) /\ AllDigits(fp) /\ Len(ip) + Len(fp) > 0
        THEN [ok |-> TRUE,
              val |-> IF signed /\ s[1] = "-" THEN <<-mag[1], mag[2]>> ELSE mag]
        ELSE [ok |-> FALSE, val |-> R(0)]

----------------------------------------------------------------------------
(* sheet.rs: tokens and errors *)

UnrecognizedToken(text) == [kind |-> "UnrecognizedToken", text |-> text]
UnexpectedToken(token) == [kind |-> "UnexpectedToken", token |-> token]
UnexpectedEof == [kind |-> "UnexpectedEof"]

TokBpm == [kind |-> "Bpm"]
TokOffset == [kind |-> "Offset"]
TokTimeOffset(t) == [kind |-> "TimeOffset", value |-> t]
TokDirection(d) == [kind |-> "Direction", value |-> d]
TokNumber(n) == [kind |-> "Number", value |-> n]
TokProjectile(ty) == [kind |-> "Projectile", value |-> ty]

Direction == {"Up", "Down", "Left", "Right"}

\* the atoms of the keyword table of Token::parse
KwBpm == <<"#", "b", "p", "m">>
KwOffset == <<"#", "o", "f", "f", "s", "e", "t">>
KwNorm == <<"n", "o", "r", "m">>

\* TimeOffset::parse.  In the struct literal beats is evaluated before bars,
\* so a bad beats segment is the error reported.
TimeOffsetParse(source) ==
    LET semi == Find(source, ";")
        head == SubSeq(source, 1, semi - 1)
        fourths == IF semi > 0 THEN ParseU32(head) ELSE [ok |-> TRUE, val |-> 0]
        rest == IF semi > 0 THEN SubSeq(source, semi + 1, Len(source)) ELSE source
        bar == Find(rest, "|")
        beatsSrc == IF bar > 0 THEN SubSeq(rest, 1, bar - 1) ELSE rest
        barsSrc == SubSeq(rest, bar + 1, Len(rest))
        beats == ParseU32(beatsSrc)
        bars == IF bar > 0 THEN ParseU32(barsSrc) ELSE [ok |-> TRUE, val |-> 0]
    IN  IF ~fourths.ok THEN [ok |-> FALSE, err |-> UnrecognizedToken(head)]
        ELSE IF ~beats.ok THEN [ok |-> FALSE, err |-> UnrecognizedToken(beatsSrc)]
        ELSE IF ~bars.ok THEN [ok |-> FALSE, err |-> UnrecognizedToken(barsSrc)]
        ELSE [ok |-> TRUE,
              val |-> [fourths |-> fourths.val, beats |-> beats.val,
                       bars |-> bars.val]]

\* Token::parse: time offset first, then f32, then the keyword table
TokenParse(source) ==
    LET time_offset == TimeOffsetParse(source)
        number == ParseF32(source)
    IN  IF time_offset.ok THEN [ok |-> TRUE, val |-> TokTimeOffset(time_offset.val)]
        ELSE IF number.ok THEN [ok |-> TRUE, val |-> TokNumber(number.val)]
        ELSE IF source = KwBpm THEN [ok |-> TRUE, val |-> TokBpm]
        ELSE IF source = KwOffset THEN [ok |-> TRUE, val |-> TokOffset]
        ELSE IF source = <<"U">> THEN [ok |-> TRUE, val |-> TokDirection("Up")]
        ELSE IF source = <<"D">> THEN [ok |-> TRUE, val |-> TokDirection("Down")]
        ELSE IF source = <<"L">> THEN [ok |-> TRUE, val |-> TokDirection("Left")]
        ELSE IF source = <<"R">> THEN [ok |-> TRUE, val |-> TokDirection("Right")]
        ELSE IF source = KwNorm THEN [ok |-> TRUE, val |-> TokProjectile("Normal")]
        ELSE [ok |-> FALSE, err |-> UnrecognizedToken(source)]

\* parse_tokes: the tokens of the atoms in order, or the first atom's error.
\* source is the result of split_whitespace, a sequence of atoms.
RECURSIVE ParseTokes(_)
ParseTokes(source) ==
    IF source = <<>> THEN [ok |-> TRUE, val |-> <<>>]
    ELSE LET t == TokenParse(Head(source))
             rest == ParseTokes(Tail(source))
         IN  IF ~t.ok THEN [ok |-> FALSE, err |-> t.err]
             ELSE IF ~rest.ok THEN rest
             ELSE [ok |-> TRUE, val |-> <<t.val>> \o rest.val]

\* TimeOffset::time counting three beats to the bar
TimeOffsetTime_ThreeBeatBars(self, bpm) ==
    LET beat == RDiv(R(60), bpm)
    IN  RAdd(RAdd(RDiv(RMul(R(self.fourths), beat), R(4)),
                  RMul(R(self.beats), beat)),
             RMul(RMul(R(self.bars), beat), R(3)))

\* TimeOffset::time
TimeOffsetTime(self, bpm) ==
    LET beat == RDiv(R(60), bpm)
    IN  RAdd(RAdd(RDiv(RMul(R(self.fourths), beat), R(4)),
                  RMul(R(self.beats), beat)),
             RMul(RMul(R(self.bars), beat), R(4)))

----------------------------------------------------------------------------
(* sheet.rs, game.rs: the chart parser.  The token iterator is the pair   *)
(* (tokens, pos), pos being the number of tokens consumed so far.         *)

\* TokenStream::next_token
NextToken(tokens, pos) ==
    IF pos < Len(tokens)
    THEN [ok |-> TRUE, val |-> tokens[pos + 1], pos |-> pos + 1]
    ELSE [ok |-> FALSE, err |-> UnexpectedEof, pos |-> pos]

\* parse_bpm taking either header marker for the tempo marker
ParseBpm_AnyMarker(tokens, pos) ==
    LET marker == NextToken(tokens, pos)
        bpm == NextToken(tokens, marker.pos)
    IN  IF ~marker.ok THEN marker
        ELSE IF marker.val.kind \notin {"Bpm", "Offset"}
             THEN [ok |-> FALSE, err |-> UnexpectedToken(marker.val), pos |-> marker.pos]
        ELSE IF ~bpm.ok THEN bpm
        ELSE IF bpm.val.kind # "Number"
             THEN [ok |-> FALSE, err |-> UnexpectedToken(bpm.val), pos |-> bpm.pos]
        ELSE [ok |-> TRUE, val |-> bpm.val.value, pos |-> bpm.pos]

\* Sheet::parse_bpm
ParseBpm(tokens, pos) ==
    LET marker == NextToken(tokens, pos)
        bpm == NextToken(tokens, marker.pos)
    IN  IF ~marker.ok THEN marker
        ELSE IF marker.val.kind # "Bpm"
             THEN [ok |-> FALSE, err |-> UnexpectedToken(marker.val), pos |-> marker.pos]
        ELSE IF ~bpm.ok THEN bpm
        ELSE IF bpm.val.kind # "Number"
             THEN [ok |-> FALSE, err |-> UnexpectedToken(bpm.val), pos |-> bpm.pos]
        ELSE [ok |-> TRUE, val |-> bpm.val.value, pos |-> bpm.pos]

\* Sheet::parse_offset
ParseOffset(tokens, pos) ==
    LET marker == NextToken(tokens, pos)
        offset == NextToken(tokens, marker.pos)
    IN  IF ~marker.ok THEN marker
        ELSE IF marker.val.kind # "Offset"
             THEN [ok |-> FALSE, err |-> UnexpectedToken(marker.val), pos |-> marker.pos]
        ELSE IF ~offset.ok THEN offset
        ELSE IF offset.val.kind # "Number"
             THEN [ok |-> FALSE, err |-> UnexpectedToken(offset.val), pos |-> offset.pos]
        ELSE [ok |-> TRUE, val |-> offset.val.value, pos |-> offset.pos]

\* Projectile::parse reporting the event-type token when the direction is
\* the wrong one
ProjectileParse_ReportsType(tokens, pos, bpm, offset) ==
    LET ty == NextToken(tokens, pos)
        direction == NextToken(tokens, ty.pos)
        time_offset == NextToken(tokens, direction.pos)
    IN  IF ~ty.ok THEN ty
        ELSE IF ty.val.kind # "Projectile"
             THEN [ok |-> FALSE, err |-> UnexpectedToken(ty.val), pos |-> ty.pos]
        ELSE IF ~direction.ok THEN direction
        ELSE IF direction.val.kind # "Direction"
             THEN [ok |-> FALSE, err |-> UnexpectedToken(ty.val),
                   pos |-> direction.pos]
        ELSE IF ~time_offset.ok THEN time_offset
        ELSE IF time_offset.val.kind # "TimeOffset"
             THEN [ok |-> FALSE, err |-> UnexpectedToken(time_offset.val),
                   pos |-> time_offset.pos]
        ELSE [ok |-> TRUE, pos |-> time_offset.pos,
              val |-> [arrival_time |-> RAdd(offset, TimeOffsetTime(time_offset.val.value, bpm)),
                       direction |-> direction.val.value,
                       ty |-> ty.val.value]]

\* Projectile::parse
ProjectileParse(tokens, pos, bpm, offset) ==
    LET ty == NextToken(tokens, pos)
        direction == NextToken(tokens, ty.pos)
        time_offset == NextToken(tokens, direction.pos)
    IN  IF ~ty.ok THEN ty
        ELSE IF ty.val.kind # "Projectile"
             THEN [ok |-> FALSE, err |-> UnexpectedToken(ty.val), pos |-> ty.pos]
        ELSE IF ~direction.ok THEN direction
        ELSE IF direction.val.kind # "Direction"
             THEN [ok |-> FALSE, err |-> UnexpectedToken(direction.val),
                   pos |-> direction.pos]
        ELSE IF ~time_offset.ok THEN time_offset
        ELSE IF time_offset.val.kind # "TimeOffset"
             THEN [ok |-> FALSE, err |-> UnexpectedToken(time_offset.val),
                   pos |-> time_offset.pos]
        ELSE [ok |-> TRUE, pos |-> time_offset.pos,
              val |-> [arrival_time |-> RAdd(offset, TimeOffsetTime(time_offset.val.value, bpm)),
                       direction |-> direction.val.value,
                       ty |-> ty.val.value]]

\* the loop test of Sheet::parse taken for "at least one whole triple left"
MoreTokens_WholeTriple(tokens, pos) == Len(tokens) - pos >= 3

\* the loop test of Sheet::parse: tokens.len() > 0 on the rest of the iterator
MoreTokens(tokens, pos) == Len(tokens) - pos > 0

\* the cursor left where it was: every offset counted from start_offset
NextStart_Fixed(start, projectile) == start

\* start = projectile.arrival_time in the loop of Sheet::parse
NextStart(start, projectile) == projectile.arrival_time

\* Sheet::default
DefaultSheet == [bpm |-> R(0), start_offset |-> R(0), projectiles |-> <<>>]

----------------------------------------------------------------------------
(* game.rs: the simulation.  Option<T> is <<>> for None and <<v>> for     *)
(* Some(v).  camera_shake, the particle system and the sounds are outputs *)
(* of the frame that no later frame reads, and are left out.              *)

None == <<>>
Some(v) == <<v>>

\* Env::new
EnvNew == [time |-> R(0), speed |-> R(128)]

\* Projectile::distance measuring the time since arrival
ProjectileDistance_SinceArrival(self, env, bpm) ==
    RAdd(RMul(RMul(RSub(env.time, self.arrival_time), env.speed),
              RDiv(bpm, R(60))),
         R(48))

\* Projectile::distance
ProjectileDistance(self, env, bpm) ==
    RAdd(RMul(RMul(RSub(self.arrival_time, env.time), env.speed),
              RDiv(bpm, R(60))),
         R(48))

\* Projectile::distance of the copy in main.rs
MainProjectileDistance(self, env, bpm) ==
    RAdd(RMul(RMul(RSub(self.arrival_time, env.time), env.speed),
              RDiv(bpm, R(120))),
         R(48))

\* Projectile::update testing the hurt radius before the shield
ProjectileUpdate_HitFirst(self, env, shield, bpm) ==
    LET blocking == IF shield # None THEN shield[1] = self.direction ELSE FALSE
        distance == ProjectileDistance(self, env, bpm)
    IN  IF RLe(distance, R(16)) THEN "Hit"
        ELSE IF blocking /\ RLt(distance, R(48)) THEN "Blocked"
        ELSE "None"

\* Projectile::update blocking from the shield ring inwards, the ring included
ProjectileUpdate_BlockAtRing(self, env, shield, bpm) ==
    LET blocking == IF shield # None THEN shield[1] = self.direction ELSE FALSE
        distance == ProjectileDistance(self, env, bpm)
    IN  IF blocking /\ RLe(distance, R(48)) THEN "Blocked"
        ELSE IF RLe(distance, R(16)) THEN "Hit"
        ELSE "None"

\* Projectile::update hitting only between the centre and the hurt radius
ProjectileUpdate_HitWindow(self, env, shield, bpm) ==
    LET blocking == IF shield # None THEN shield[1] = self.direction ELSE FALSE
        distance == ProjectileDistance(self, env, bpm)
    IN  IF blocking /\ RLt(distance, R(48)) THEN "Blocked"
        ELSE IF RLe(R(0), distance) /\ RLe(distance, R(16)) THEN "Hit"
        ELSE "None"

\* Projectile::update
ProjectileUpdate(self, env, shield, bpm) ==
    LET blocking == IF shield # None THEN shield[1] = self.direction ELSE FALSE
        distance == ProjectileDistance(self, env, bpm)
    IN  IF blocking /\ RLt(distance, R(48)) THEN "Blocked"
        ELSE IF RLe(distance, R(16)) THEN "Hit"
        ELSE "None"

\* the match dropping a projectile that hit as well
Retain_DropsHit(hit) ==
    CASE hit = "None" -> TRUE
      [] hit = "Blocked" -> FALSE
      [] hit = "Hit" -> FALSE

\* the match on hit in the retain closure of GameState::update
Retain(hit) ==
    CASE hit = "None" -> TRUE
      [] hit = "Blocked" -> FALSE
      [] hit = "Hit" -> TRUE

\* the key tests giving no shield while no key is pressed
ShieldInput_Released(shield, pressed) ==
    IF pressed = {} THEN None
    ELSE CHOOSE s \in {Some(d) : d \in pressed} :
            \A d \in pressed :
                LET rank(x) == CASE x = "Up" -> 1 [] x = "Down" -> 2
                                 [] x = "Left" -> 3 [] x = "Right" -> 4
                IN  rank(d) <= rank(s[1])

\* the key tests in the opposite order, so that Up wins
ShieldInput_UpWins(shield, pressed) ==
    LET s1 == IF "Right" \in pressed THEN Some("Right") ELSE shield
        s2 == IF "Left" \in pressed THEN Some("Left") ELSE s1
        s3 == IF "Down" \in pressed THEN Some("Down") ELSE s2
    IN  IF "Up" \in pressed THEN Some("Up") ELSE s3

\* the four is_key_pressed tests of GameState::update, in source order;
\* pressed is the set of directions whose key went down this frame
ShieldInput(shield, pressed) ==
    LET s1 == IF "Up" \in pressed THEN Some("Up") ELSE shield
        s2 == IF "Down" \in pressed THEN Some("Down") ELSE s1
        s3 == IF "Left" \in pressed THEN Some("Left") ELSE s2
    IN  IF "Right" \in pressed THEN Some("Right") ELSE s3

\* GameState::new
GameStateNew(sh) ==
    [shield |-> None, env |-> EnvNew, projectiles |-> sh.projectiles,
     score |-> 0, death |-> None]

\* the retain closure counting a projectile that hit as well
RECURSIVE RetainProjectiles_ScoresHit(_, _, _, _, _)
RetainProjectiles_ScoresHit(ps, acc, env, shield, bpm) ==
    IF ps = <<>> THEN acc
    ELSE LET hit == ProjectileUpdate(Head(ps), env, shield, bpm)
             retain == Retain(hit)
         IN  RetainProjectiles_ScoresHit(Tail(ps),
                 [projectiles |-> IF retain THEN Append(acc.projectiles, Head(ps))
                                  ELSE acc.projectiles,
                  score |-> IF hit # "None" THEN acc.score + 1 ELSE acc.score,
                  death |-> IF hit = "Hit" THEN Some(R(0)) ELSE acc.death,
                  hits |-> Append(acc.hits, hit)],
                 env, shield, bpm)

\* the retain closure no longer classifying once a projectile has hit
RECURSIVE RetainProjectiles_StopAtHit(_, _, _, _, _)
RetainProjectiles_StopAtHit(ps, acc, env, shield, bpm) ==
    IF ps = <<>> THEN acc
    ELSE LET hit == IF acc.death # None THEN "None"
                    ELSE ProjectileUpdate(Head(ps), env, shield, bpm)
             retain == Retain(hit)
         IN  RetainProjectiles_StopAtHit(Tail(ps),
                 [projectiles |-> IF retain THEN Append(acc.projectiles, Head(ps))
                                  ELSE acc.projectiles,
                  score |-> IF ~retain THEN acc.score + 1 ELSE acc.score,
                  death |-> IF hit = "Hit" THEN Some(R(0)) ELSE acc.death,
                  hits |-> Append(acc.hits, hit)],
                 env, shield, bpm)

\* Vec::retain with the closure of GameState::update: the projectiles are
\* visited in order, each one classified, counted and kept or dropped
RECURSIVE RetainProjectiles(_, _, _, _, _)
RetainProjectiles(ps, acc, env, shield, bpm) ==
    IF ps = <<>> THEN acc
    ELSE LET hit == ProjectileUpdate(Head(ps), env, shield, bpm)
             retain == Retain(hit)
         IN  RetainProjectiles(Tail(ps),
                 [projectiles |-> IF retain THEN Append(acc.projectiles, Head(ps))
                                  ELSE acc.projectiles,
                  score |-> IF ~retain THEN acc.score + 1 ELSE acc.score,
                  death |-> IF hit = "Hit" THEN Some(R(0)) ELSE acc.death,
                  hits |-> Append(acc.hits, hit)],
                 env, shield, bpm)

\* GameState::update classifying the projectiles in every frame, dying or not
UpdateBody_NoDeathGuard(st, sh, dt, pressed) ==
    LET death_frame_time ==
            RMul(dt, RMax(RSub(R(1), IF st.death # None THEN st.death[1] ELSE R(0)),
                          R(0)))
        env == [st.env EXCEPT !.time = RAdd(@, death_frame_time)]
        shield == ShieldInput(st.shield, pressed)
        kept == RetainProjectiles(st.projectiles,
                    [projectiles |-> <<>>, score |-> st.score,
                     death |-> IF st.death # None THEN Some(RAdd(st.death[1], dt))
                               ELSE st.death,
                     hits |-> <<>>],
                    env, shield, sh.bpm)
    IN  [shield |-> shield,
         env |-> [env EXCEPT !.speed = RAdd(@, RMul(dt, R(2)))],
         projectiles |-> kept.projectiles,
         score |-> kept.score,
         death |-> kept.death,
         hits |-> kept.hits]

\* GameState::update advancing the death timer by the scaled frame time
UpdateBody_ScaledDeathTimer(st, sh, dt, pressed) ==
    LET death_frame_time ==
            RMul(dt, RMax(RSub(R(1), IF st.death # None THEN st.death[1] ELSE R(0)),
                          R(0)))
        env == [st.env EXCEPT !.time = RAdd(@, death_frame_time)]
    IN  IF st.death # None
        THEN [st EXCEPT !.env = env,
                        !.death = Some(RAdd(st.death[1], death_frame_time))]
                @@ [hits |-> <<>>]
        ELSE LET shield == ShieldInput(st.shield, pressed)
                 kept == RetainProjectiles(st.projectiles,
                             [projectiles |-> <<>>, score |-> st.score,
                              death |-> st.death, hits |-> <<>>],
                             env, shield, sh.bpm)
             IN  [shield |-> shield,
                  env |-> [env EXCEPT !.speed = RAdd(@, RMul(dt, R(2)))],
                  projectiles |-> kept.projectiles,
                  score |-> kept.score,
                  death |-> kept.death,
                  hits |-> kept.hits]

\* GameState::update ending the death once its timer reaches one second
UpdateBody_Respawn(st, sh, dt, pressed) ==
    LET death_frame_time ==
            RMul(dt, RMax(RSub(R(1), IF st.death # None THEN st.death[1] ELSE R(0)),
                          R(0)))
        env == [st.env EXCEPT !.time = RAdd(@, death_frame_time)]
    IN  IF st.death # None
        THEN [st EXCEPT !.env = env,
                        !.death = IF RLe(R(1), RAdd(st.death[1], dt)) THEN None
                                  ELSE Some(RAdd(st.death[1], dt))]
                @@ [hits |-> <<>>]
        ELSE LET shield == ShieldInput(st.shield, pressed)
                 kept == RetainProjectiles(st.projectiles,
                             [projectiles |-> <<>>, score |-> st.score,
                              death |-> st.death, hits |-> <<>>],
                             env, shield, sh.bpm)
             IN  [shield |-> shield,
                  env |-> [env EXCEPT !.speed = RAdd(@, RMul(dt, R(2)))],
                  projectiles |-> kept.projectiles,
                  score |-> kept.score,
                  death |-> kept.death,
                  hits |-> kept.hits]

\* GameState::update adding the whole frame time to env.time while dying
UpdateBody_NoRamp(st, sh, dt, pressed) ==
    LET death_frame_time ==
            dt
        env == [st.env EXCEPT !.time = RAdd(@, death_frame_time)]
    IN  IF st.death # None
        THEN [st EXCEPT !.env = env, !.death = Some(RAdd(st.death[1], dt))]
                @@ [hits |-> <<>>]
        ELSE LET shield == ShieldInput(st.shield, pressed)
                 kept == RetainProjectiles(st.projectiles,
                             [projectiles |-> <<>>, score |-> st.score,
                              death |-> st.death, hits |-> <<>>],
                             env, shield, sh.bpm)
             IN  [shield |-> shield,
                  env |-> [env EXCEPT !.speed = RAdd(@, RMul(dt, R(2)))],
                  projectiles |-> kept.projectiles,
                  score |-> kept.score,
                  death |-> kept.death,
                  hits |-> kept.hits]

\* GameState::update without the .max(0.0) on the time scale
UpdateBody_NoClamp(st, sh, dt, pressed) ==
    LET death_frame_time ==
            RMul(dt, RSub(R(1), IF st.death # None THEN st.death[1] ELSE R(0)))
        env == [st.env EXCEPT !.time = RAdd(@, death_frame_time)]
    IN  IF st.death # None
        THEN [st EXCEPT !.env = env, !.death = Some(RAdd(st.death[1], dt))]
                @@ [hits |-> <<>>]
        ELSE LET shield == ShieldInput(st.shield, pressed)
                 kept == RetainProjectiles(st.projectiles,
                             [projectiles |-> <<>>, score |-> st.score,
                              death |-> st.death, hits |-> <<>>],
                             env, shield, sh.bpm)
             IN  [shield |-> shield,
                  env |-> [env EXCEPT !.speed = RAdd(@, RMul(dt, R(2)))],
                  projectiles |-> kept.projectiles,
                  score |-> kept.score,
                  death |-> kept.death,
                  hits |-> kept.hits]

\* GameState::update raising the speed in dying frames too
UpdateBody_SpeedWhileDying(st, sh, dt, pressed) ==
    LET death_frame_time ==
            RMul(dt, RMax(RSub(R(1), IF st.death # None THEN st.death[1] ELSE R(0)),
                          R(0)))
        env == [st.env EXCEPT !.time = RAdd(@, death_frame_time)]
    IN  IF st.death # None
        THEN [st EXCEPT !.env = [env EXCEPT !.speed = RAdd(@, RMul(dt, R(2)))],
                        !.death = Some(RAdd(st.death[1], dt))]
                @@ [hits |-> <<>>]
        ELSE LET shield == ShieldInput(st.shield, pressed)
                 kept == RetainProjectiles(st.projectiles,
                             [projectiles |-> <<>>, score |-> st.score,
                              death |-> st.death, hits |-> <<>>],
                             env, shield, sh.bpm)
             IN  [shield |-> shield,
                  env |-> [env EXCEPT !.speed = RAdd(@, RMul(dt, R(2)))],
                  projectiles |-> kept.projectiles,
                  score |-> kept.score,
                  death |-> kept.death,
                  hits |-> kept.hits]

\* GameState::update raising the speed a hundred times as fast
UpdateBody_SteepRamp(st, sh, dt, pressed) ==
    LET death_frame_time ==
            RMul(dt, RMax(RSub(R(1), IF st.death # None THEN st.death[1] ELSE R(0)),
                          R(0)))
        env == [st.env EXCEPT !.time = RAdd(@, death_frame_time)]
    IN  IF st.death # None
        THEN [st EXCEPT !.env = env, !.death = Some(RAdd(st.death[1], dt))]
                @@ [hits |-> <<>>]
        ELSE LET shield == ShieldInput(st.shield, pressed)
                 kept == RetainProjectiles(st.projectiles,
                             [projectiles |-> <<>>, score |-> st.score,
                              death |-> st.death, hits |-> <<>>],
                             env, shield, sh.bpm)
             IN  [shield |-> shield,
                  env |-> [env EXCEPT !.speed = RAdd(@, RMul(dt, R(200)))],
                  projectiles |-> kept.projectiles,
                  score |-> kept.score,
                  death |-> kept.death,
                  hits |-> kept.hits]

\* GameState::update up to, and not including, the restart test.  st is the
\* run state, dt the value of get_frame_time().
UpdateBody(st, sh, dt, pressed) ==
    LET death_frame_time ==
            RMul(dt, RMax(RSub(R(1), IF st.death # None THEN st.death[1] ELSE R(0)),
                          R(0)))
        env == [st.env EXCEPT !.time = RAdd(@, death_frame_time)]
    IN  IF st.death # None
        THEN [st EXCEPT !.env = env, !.death = Some(RAdd(st.death[1], dt))]
                @@ [hits |-> <<>>]
        ELSE LET shield == ShieldInput(st.shield, pressed)
                 kept == RetainProjectiles(st.projectiles,
                             [projectiles |-> <<>>, score |-> st.score,
                              death |-> st.death, hits |-> <<>>],
                             env, shield, sh.bpm)
             IN  [shield |-> shield,
                  env |-> [env EXCEPT !.speed = RAdd(@, RMul(dt, R(2)))],
                  projectiles |-> kept.projectiles,
                  score |-> kept.score,
                  death |-> kept.death,
                  hits |-> kept.hits]

Strip(st) ==
    [shield |-> st.shield, env |-> st.env, projectiles |-> st.projectiles,
     score |-> st.score, death |-> st.death]

----------------------------------------------------------------------------
(* The copy of the simulation in main.rs *)

\* Projectile::update of main.rs
MainProjectileUpdate(self, env, shield, bpm) ==
    LET blocking == IF shield # None THEN shield[1] = self.direction ELSE FALSE
        distance == MainProjectileDistance(self, env, bpm)
    IN  IF blocking /\ RLt(distance, R(48)) THEN "Blocked"
        ELSE IF RLe(distance, R(16)) THEN "Hit"
        ELSE "None"

\* GameState::new of main.rs
MainGameStateNew(sh) ==
    [shield |-> None, env |-> EnvNew, projectiles |-> sh.projectiles,
     score |-> 0, death |-> None]

\* Vec::retain with the closure of GameState::update of main.rs
RECURSIVE MainRetainProjectiles(_, _, _, _, _)
MainRetainProjectiles(ps, acc, env, shield, bpm) ==
    IF ps = <<>> THEN acc
    ELSE LET hit == MainProjectileUpdate(Head(ps), env, shield, bpm)
             retain == Retain(hit)
         IN  MainRetainProjectiles(Tail(ps),
                 [projectiles |-> IF retain THEN Append(acc.projectiles, Head(ps))
                                  ELSE acc.projectiles,
                  score |-> IF ~retain THEN acc.score + 1 ELSE acc.score,
                  death |-> IF hit = "Hit" THEN Some(R(0)) ELSE acc.death],
                 env, shield, bpm)

\* GameState::update of main.rs up to the restart test; pressed is the set
\* of directions whose W, S, A or D key went down this frame
MainUpdateBody(st, sh, dt, pressed) ==
    IF st.death # None
    THEN [st EXCEPT
            !.env.time = RAdd(@, RMul(dt, RMax(RSub(R(1), st.death[1]), R(0)))),
            !.death = Some(RAdd(st.death[1], dt))]
    ELSE LET shield == ShieldInput(st.shield, pressed)
             env == [st.env EXCEPT !.time = RAdd(@, dt)]
             kept == MainRetainProjectiles(st.projectiles,
                         [projectiles |-> <<>>, score |-> st.score,
                          death |-> st.death],
                         env, shield, sh.bpm)
         IN  [shield |-> shield,
              env |-> [env EXCEPT !.speed = RAdd(@, RMul(dt, R(2)))],
              projectiles |-> kept.projectiles,
              score |-> kept.score,
              death |-> kept.death]

\* GameState::update of main.rs
MainUpdate(st, sh, dt, pressed, restart) ==
    IF restart THEN MainGameStateNew(sh) ELSE MainUpdateBody(st, sh, dt, pressed)

----------------------------------------------------------------------------
(* Chart sources fed to the parser *)

Alphabet == {"0", "1", ".", ";", "|", "+", "-"}

\* every atom of 1..MaxAtomLen characters over Alphabet
Atoms == UNION {[1..k -> Alphabet] : k \in 1..MaxAtomLen}

A0 == <<"0">>
A1 == <<"1">>
A120 == <<"1", "2", "0">>
A0f == <<"0", ".", "0">>
A05 == <<"0", ".", "5">>
A60f == <<"6", "0", ".", "0">>
A120f == <<"1", "2", "0", ".", "0">>
AU == <<"U">>
AD == <<"D">>
AL == <<"L">>
AR == <<"R">>
T10 == <<"1", "|", "0">>
T21 == <<"2", ";", "1">>
T01 == <<"1", ";", "0">>
T040 == <<"0", "|", "4", "0">>

\* headers the code accepts
GoodHeaders == {<<KwBpm, A120f, KwOffset, A0f>>, <<KwBpm, A60f, KwOffset, A05>>}

\* headers written with integer literals, cut short, or in the wrong order
OtherHeaders ==
    {<<KwBpm, A120, KwOffset, A0>>, <<KwBpm, A120f, KwOffset, A0>>,
     <<KwBpm, A120>>, <<KwBpm, A120f>>, <<KwBpm>>, <<>>,
     <<KwBpm, A120f, KwOffset>>, <<KwBpm, A120f, A0f>>,
     <<KwOffset, A0, KwBpm, A120>>, <<KwOffset, A0f, KwBpm, A120f>>,
     <<KwBpm, A120f, KwOffset, A0f, KwNorm, AU, <<";">>>>}

\* the atoms tried at the three positions of a body triple
Slot1 == {KwNorm, AU}
Slot2 == {AU, AR, A1}
Slot3 == {T10, T21, A05}

Triples == {<<a, b, c>> : a \in Slot1, b \in Slot2, c \in Slot3}

Tails == {<<>>} \cup {<<a>> : a \in Slot1} \cup {<<a, b>> : a \in Slot1, b \in Slot2}

RECURSIVE Bodies(_)
Bodies(k) ==
    IF k = 0 THEN {<<>>}
    ELSE Bodies(k - 1) \cup {b \o t : b \in Bodies(k - 1), t \in Triples}

Sources ==
    {h \o b \o t : h \in GoodHeaders, b \in Bodies(MaxTriples), t \in Tails}
    \cup {h \o b : h \in OtherHeaders, b \in {<<>>, <<KwNorm, AU, T10>>}}
    \cup {<<a>> : a \in Atoms}

\* the charts the simulation is run on
GameSources ==
    {<<KwBpm, A60f, KwOffset, A0f, KwNorm, AU, A0, KwNorm, AD, A0, KwNorm, AU, T01>>,
     <<KwBpm, A120f, KwOffset, A05, KwNorm, AL, A0, KwNorm, AL, T01, KwNorm, AD, A1,
       KwNorm, AR, T040>>}

\* the values get_frame_time() takes
FrameTimes == {<<1, 4>>, <<1, 2>>, <<1, 1>>}

\* the directional keys pressed in one frame: none, one, two or all four
PressedSets ==
    {p \in SUBSET Direction : Cardinality(p) <= 2 \/ p = Direction}

----------------------------------------------------------------------------
(* State *)

VARIABLES
    pc,           \* where the program stands: "lex", "bpm", "offset", "body"
                  \* inside Sheet::parse, "failed" or "parsed" once it has
                  \* returned, "run" once GameState::new has built the run
    source,       \* the atoms of the chart source
    tokens,       \* the token vector of parse_tokes
    pos,          \* number of tokens taken from the iterator
    err,          \* the ParseError returned, when pc = "failed"
    sheet,        \* the Sheet being built, then assets.sheet
    start,        \* the local start of Sheet::parse
    shield,       \* GameState.shield
    env,          \* GameState.env
    projectiles,  \* GameState.projectiles
    score,        \* GameState.score
    death,        \* GameState.death
    nframes,      \* number of frames run so far
    call,         \* a call of TimeOffset::time or Projectile::distance on
                  \* enumerated arguments, with its results
    legacy,       \* the run state of the copy of the simulation in main.rs
    last          \* the last frame: its inputs, the state before it, the
                  \* classification of each projectile and the state before
                  \* the restart test; whether the frame before it restarted;
                  \* the sums over the frames of the death in progress

vars == <<pc, source, tokens, pos, err, sheet, start, shield, env, projectiles,
          score, death, nframes, call, legacy, last>>

parseVars == <<source, tokens, pos, err, sheet, start>>
gameVars == <<shield, env, projectiles, score, death, nframes, legacy, last>>

RunState == [shield |-> shield, env |-> env, projectiles |-> projectiles,
             score |-> score, death |-> death]

\* the frames of the death in progress: how many, their summed frame time,
\* and the summed amounts they added to env.time
NoRamp == [frames |-> 0, real |-> R(0), eff |-> R(0)]

NoFrame(st) ==
    [acted |-> FALSE, dt |-> R(0), pressed |-> {}, restart |-> FALSE,
     pre |-> st, mid |-> st, hits |-> <<>>, cenv |-> st.env,
     after_restart |-> FALSE, ramp |-> NoRamp]

NoError == [kind |-> "None"]

NoCall ==
    [fn |-> "none", done |-> FALSE,
     offset |-> [fourths |-> 0, beats |-> 0, bars |-> 0], bpm |-> R(0),
     arrival |-> R(0), speed |-> R(0), t1 |-> R(0), t2 |-> R(0),
     out1 |-> R(0), out2 |-> R(0)]

\* Sheet::parse is entered with the source text; no run exists yet
InitWith(sources) ==
    /\ pc = "lex"
    /\ source \in sources
    /\ tokens = <<>>
    /\ pos = 0
    /\ err = NoError
    /\ sheet = DefaultSheet
    /\ start = R(0)
    /\ shield = None
    /\ env = EnvNew
    /\ projectiles = <<>>
    /\ score = 0
    /\ death = None
    /\ nframes = 0
    /\ call = NoCall
    /\ legacy = MainGameStateNew(DefaultSheet)
    /\ last = NoFrame(GameStateNew(DefaultSheet))

Fail(e, p) ==
    /\ err' = e
    /\ pos' = p
    /\ pc' = "failed"

----------------------------------------------------------------------------
(* Sheet::parse, one action per step *)

\* let mut tokens = parse_tokes(source)?.into_iter();
Lex ==
    /\ pc = "lex"
    /\ \E lexed \in {ParseTokes(source)} :
          IF lexed.ok
          THEN tokens' = lexed.val /\ pc' = "bpm" /\ UNCHANGED <<err, pos>>
          ELSE Fail(lexed.err, 0) /\ UNCHANGED tokens
    /\ UNCHANGED <<source, sheet, start, gameVars, call>>

\* sheet.parse_bpm(&mut tokens)?;
StepBpm ==
    /\ pc = "bpm"
    /\ \E bpm \in {ParseBpm(tokens, pos)} :
          IF bpm.ok
          THEN /\ sheet' = [sheet EXCEPT !.bpm = bpm.val]
               /\ pos' = bpm.pos
               /\ pc' = "offset"
               /\ UNCHANGED err
          ELSE Fail(bpm.err, bpm.pos) /\ UNCHANGED sheet
    /\ UNCHANGED <<source, tokens, start, gameVars, call>>

\* sheet.parse_offset(&mut tokens)?; let mut start = sheet.start_offset;
StepOffset ==
    /\ pc = "offset"
    /\ \E offset \in {ParseOffset(tokens, pos)} :
          IF offset.ok
          THEN /\ sheet' = [sheet EXCEPT !.start_offset = offset.val]
               /\ start' = offset.val
               /\ pos' = offset.pos
               /\ pc' = "body"
               /\ UNCHANGED err
          ELSE Fail(offset.err, offset.pos) /\ UNCHANGED <<sheet, start>>
    /\ UNCHANGED <<source, tokens, gameVars, call>>

\* one turn of the while loop
StepProjectile ==
    /\ pc = "body"
    /\ MoreTokens(tokens, pos)
    /\ \E projectile \in {ProjectileParse(tokens, pos, sheet.bpm, start)} :
          IF projectile.ok
          THEN /\ start' = NextStart(start, projectile.val)
               /\ sheet' = [sheet EXCEPT !.projectiles = Append(@, projectile.val)]
               /\ pos' = projectile.pos
               /\ UNCHANGED <<pc, err>>
          ELSE Fail(projectile.err, projectile.pos) /\ UNCHANGED <<sheet, start>>
    /\ UNCHANGED <<source, tokens, gameVars, call>>

\* the loop ends and Sheet::parse returns Ok(sheet)
ParseOk ==
    /\ pc = "body"
    /\ ~MoreTokens(tokens, pos)
    /\ pc' = "parsed"
    /\ UNCHANGED <<parseVars, gameVars, call>>

ParseInit == InitWith(Sources)

ParseNext == Lex \/ StepBpm \/ StepOffset \/ StepProjectile \/ ParseOk

ParseSpec == ParseInit /\ [][ParseNext]_vars

----------------------------------------------------------------------------
(* The program: Assets::load parses the chart, GameState::new builds the  *)
(* run, and main calls GameState::update once per frame                   *)

Init == InitWith(GameSources)

\* GameState::new
NewGame ==
    /\ pc = "parsed"
    /\ \E st \in {GameStateNew(sheet)} :
          /\ shield' = st.shield
          /\ env' = st.env
          /\ projectiles' = st.projectiles
          /\ score' = st.score
          /\ death' = st.death
          /\ last' = NoFrame(st)
    /\ legacy' = MainGameStateNew(sheet)
    /\ pc' = "run"
    /\ UNCHANGED <<parseVars, nframes, call>>

\* GameState::update testing the restart key before the frame runs
Update_RestartFirst(dt, pressed, restart) ==
    /\ pc = "run"
    /\ nframes < MaxFrames
    /\ \E mid \in {UpdateBody(IF restart THEN GameStateNew(sheet) ELSE RunState,
                             sheet, dt, pressed)} :
       \E fin \in {Strip(mid)} :
          /\ shield' = fin.shield
          /\ env' = fin.env
          /\ projectiles' = fin.projectiles
          /\ score' = fin.score
          /\ death' = fin.death
          /\ last' = [acted |-> TRUE, dt |-> dt, pressed |-> pressed,
                      restart |-> restart, pre |-> RunState, mid |-> Strip(mid),
                      hits |-> mid.hits,
                      cenv |-> [env EXCEPT !.time = mid.env.time],
                      after_restart |-> last.acted /\ last.restart,
                      ramp |-> IF restart \/ death = None THEN NoRamp
                               ELSE [frames |-> last.ramp.frames + 1,
                                     real |-> RAdd(last.ramp.real, dt),
                                     eff |-> RAdd(last.ramp.eff,
                                                  RSub(mid.env.time, env.time))]]
    /\ nframes' = nframes + 1
    /\ UNCHANGED <<pc, parseVars, call>>

\* GameState::update honouring the restart key only after a death
Update_RestartOnlyWhenDead(dt, pressed, restart) ==
    /\ pc = "run"
    /\ nframes < MaxFrames
    /\ \E mid \in {UpdateBody(RunState, sheet, dt, pressed)} :
       \E fin \in {IF restart /\ death # None THEN GameStateNew(sheet)
                      ELSE Strip(mid)} :
          /\ shield' = fin.shield
          /\ env' = fin.env
          /\ projectiles' = fin.projectiles
          /\ score' = fin.score
          /\ death' = fin.death
          /\ last' = [acted |-> TRUE, dt |-> dt, pressed |-> pressed,
                      restart |-> restart, pre |-> RunState, mid |-> Strip(mid),
                      hits |-> mid.hits,
                      cenv |-> [env EXCEPT !.time = mid.env.time],
                      after_restart |-> last.acted /\ last.restart,
                      ramp |-> IF restart \/ death = None THEN NoRamp
                               ELSE [frames |-> last.ramp.frames + 1,
                                     real |-> RAdd(last.ramp.real, dt),
                                     eff |-> RAdd(last.ramp.eff,
                                                  RSub(mid.env.time, env.time))]]
    /\ nframes' = nframes + 1
    /\ UNCHANGED <<pc, parseVars, call>>

\* GameState::update.  dt is get_frame_time(), pressed the directions whose
\* key went down this frame, restart is is_key_pressed(R).
Update(dt, pressed, restart) ==
    /\ pc = "run"
    /\ nframes < MaxFrames
    /\ \E mid \in {UpdateBody(RunState, sheet, dt, pressed)} :
       \E fin \in {IF restart THEN GameStateNew(sheet) ELSE Strip(mid)} :
          /\ shield' = fin.shield
          /\ env' = fin.env
          /\ projectiles' = fin.projectiles
          /\ score' = fin.score
          /\ death' = fin.death
          /\ last' = [acted |-> TRUE, dt |-> dt, pressed |-> pressed,
                      restart |-> restart, pre |-> RunState, mid |-> Strip(mid),
                      hits |-> mid.hits,
                      cenv |-> [env EXCEPT !.time = mid.env.time],
                      after_restart |-> last.acted /\ last.restart,
                      ramp |-> IF restart \/ death = None THEN NoRamp
                               ELSE [frames |-> last.ramp.frames + 1,
                                     real |-> RAdd(last.ramp.real, dt),
                                     eff |-> RAdd(last.ramp.eff,
                                                  RSub(mid.env.time, env.time))]]
    /\ nframes' = nframes + 1
    /\ UNCHANGED <<pc, parseVars, call>>

Frame == \E dt \in FrameTimes, pressed \in PressedSets, restart \in BOOLEAN :
            Update(dt, pressed, restart) /\ UNCHANGED legacy

Next == Lex \/ StepBpm \/ StepOffset \/ StepProjectile \/ ParseOk \/ NewGame \/ Frame

Spec == Init /\ [][Next]_vars

\* a frame in which no directional key and no restart key is pressed
IdleFrame == \E dt \in FrameTimes : Update(dt, {}, FALSE) /\ UNCHANGED legacy

IdleNext ==
    Lex \/ StepBpm \/ StepOffset \/ StepProjectile \/ ParseOk \/ NewGame \/ IdleFrame

\* the steps of Assets::load and GameState::new, and when one can be taken
LoadStep == Lex \/ StepBpm \/ StepOffset \/ StepProjectile \/ ParseOk \/ NewGame
Loading == pc \in {"lex", "bpm", "offset", "body", "parsed"}

\* when a frame can be taken
Framing == pc = "run" /\ nframes < MaxFrames

\* weak fairness of LoadStep and of IdleFrame, WF_vars(LoadStep) and
\* WF_vars(IdleFrame), with the guards of the actions written in place of
\* ENABLED: loading runs to its end, and the main loop calls
\* GameState::update once per frame for as long as it runs
IdleFairness ==
    /\ ([]<>~Loading) \/ ([]<><<LoadStep>>_vars)
    /\ ([]<>~Framing) \/ ([]<><<IdleFrame>>_vars)

\* the player never touches a key
IdleSpec == Init /\ [][IdleNext]_vars /\ IdleFairness

\* a frame fed to both copies of the simulation
DualFrame ==
    \E dt \in FrameTimes, pressed \in PressedSets, restart \in BOOLEAN :
        /\ Update(dt, pressed, restart)
        /\ \E st \in {MainUpdate(legacy, sheet, dt, pressed, restart)} : legacy' = st

DualNext ==
    Lex \/ StepBpm \/ StepOffset \/ StepProjectile \/ ParseOk \/ NewGame \/ DualFrame

DualSpec == Init /\ [][DualNext]_vars

----------------------------------------------------------------------------
(* The pure functions TimeOffset::time and Projectile::distance, each      *)
(* called once on arguments drawn from the sets below                      *)

Tempos == {R(60), R(90), R(120), R(140)}

TimeOffsets ==
    [fourths : 0..MaxUnits, beats : 0..MaxUnits, bars : 0..MaxUnits]

\* arrival times, elapsed times and approach speeds, in seconds and units/s
ArrivalTimes == {R(0), <<1, 2>>, R(1), <<5, 4>>}
ElapsedTimes == {R(0), <<1, 4>>, <<1, 2>>, R(1), <<5, 4>>, R(2)}
Speeds == {R(128), <<257, 2>>, R(130)}

TimeCalls ==
    {[NoCall EXCEPT !.fn = "time", !.offset = o, !.bpm = t] :
        o \in TimeOffsets, t \in Tempos}

\* a projectile seen at two elapsed times t1 < t2 under one speed
DistanceCalls ==
    {[NoCall EXCEPT !.fn = f, !.arrival = a, !.speed = s, !.bpm = t,
                    !.t1 = x[1], !.t2 = x[2]] :
        f \in {"distance", "main_distance"}, a \in ArrivalTimes, s \in Speeds,
        t \in Tempos,
        x \in {y \in ElapsedTimes \X ElapsedTimes : RLt(y[1], y[2])}}

PureInit ==
    /\ pc = "call"
    /\ source = <<>>
    /\ tokens = <<>>
    /\ pos = 0
    /\ err = NoError
    /\ sheet = DefaultSheet
    /\ start = R(0)
    /\ shield = None
    /\ env = EnvNew
    /\ projectiles = <<>>
    /\ score = 0
    /\ death = None
    /\ nframes = 0
    /\ call \in TimeCalls \cup DistanceCalls
    /\ legacy = MainGameStateNew(DefaultSheet)
    /\ last = NoFrame(GameStateNew(DefaultSheet))

ProjectileAt(arrival) ==
    [arrival_time |-> arrival, direction |-> "Up", ty |-> "Normal"]

\* TimeOffset::time
ApplyTime ==
    /\ pc = "call"
    /\ call.fn = "time"
    /\ call' = [call EXCEPT !.done = TRUE,
                            !.out1 = TimeOffsetTime(call.offset, call.bpm)]
    /\ pc' = "returned"
    /\ UNCHANGED <<parseVars, gameVars>>

\* Projectile::distance of game.rs, at t1 and at t2
ApplyDistance ==
    /\ pc = "call"
    /\ call.fn = "distance"
    /\ call' = [call EXCEPT
          !.done = TRUE,
          !.out1 = ProjectileDistance(ProjectileAt(call.arrival),
                       [time |-> call.t1, speed |-> call.speed], call.bpm),
          !.out2 = ProjectileDistance(ProjectileAt(call.arrival),
                       [time |-> call.t2, speed |-> call.speed], call.bpm)]
    /\ pc' = "returned"
    /\ UNCHANGED <<parseVars, gameVars>>

\* Projectile::distance of main.rs, at t1 and at t2
ApplyMainDistance ==
    /\ pc = "call"
    /\ call.fn = "main_distance"
    /\ call' = [call EXCEPT
          !.done = TRUE,
          !.out1 = MainProjectileDistance(ProjectileAt(call.arrival),
                       [time |-> call.t1, speed |-> call.speed], call.bpm),
          !.out2 = MainProjectileDistance(ProjectileAt(call.arrival),
                       [time |-> call.t2, speed |-> call.speed], call.bpm)]
    /\ pc' = "returned"
    /\ UNCHANGED <<parseVars, gameVars>>

PureNext == ApplyTime \/ ApplyDistance \/ ApplyMainDistance

PureSpec == PureInit /\ [][PureNext]_vars

----------------------------------------------------------------------------
(* Claims about the lexer and the parser, checked under ParseSpec *)

\* Sheet::parse has returned, with a chart or with an error
Returned == pc \in {"parsed", "failed"}

Min(S) == CHOOSE x \in S : \A y \in S : x <= y

\* every atom of the source is one the lexer recognises
Lexes(src) == \A i \in 1..Len(src) : TokenParse(src[i]).ok

\* the first four tokens are TempoMarker Number OffsetMarker Number
ValidHeader(toks) ==
    /\ Len(toks) >= 4
    /\ toks[1].kind = "Bpm"
    /\ toks[2].kind = "Number"
    /\ toks[3].kind = "Offset"
    /\ toks[4].kind = "Number"

\* the kind the grammar expects at token index i of the body
BodyKind(i) ==
    CASE (i - 5) % 3 = 0 -> "Projectile"
      [] (i - 5) % 3 = 1 -> "Direction"
      [] (i - 5) % 3 = 2 -> "TimeOffset"

\* the body indices holding a token of the wrong kind
BadIndices(toks) == {i \in 5..Len(toks) : toks[i].kind # BodyKind(i)}

SrcIntegerHeader == <<KwBpm, A120, KwOffset, A0, KwNorm, AU, T10>>
SrcSwappedHeader == <<KwOffset, A0, KwBpm, A120, KwNorm, AU, T10>>

\* C1: parsing "#bpm 120 #offset 0 norm U 1|0" succeeds with tempo 120,
\* start_offset 0 and exactly one event, of direction Up and arrival_time
\* 0.5 s.
C1_IntegerHeaderParses ==
    (Returned /\ source = SrcIntegerHeader) =>
        /\ Returned
        /\ sheet.bpm = R(120)
        /\ sheet.start_offset = R(0)
        /\ Len(sheet.projectiles) = 1
        /\ sheet.projectiles[1].direction = "Up"
        /\ sheet.projectiles[1].arrival_time = <<1, 2>>

\* C2: parsing a source that holds only the tempo clause, "#bpm" followed by
\* a numeric literal such as 120, fails with UnexpectedEof and with no other
\* error kind.
C2_MissingOffsetIsEof ==
    (Returned /\ Len(source) = 2 /\ source[1] = KwBpm
        /\ ParseF32(source[2]).ok) =>
        (pc = "failed" /\ err.kind = "UnexpectedEof")

\* C3: when every atom lexes and the source starts with the offset marker,
\* parsing fails with UnexpectedToken carrying the offset marker, raised on
\* the first token (one token consumed), and no chart is returned.
C3_SwappedHeaderIsUnexpectedToken ==
    (Returned /\ source # <<>> /\ source[1] = KwOffset /\ Lexes(source)) =>
        /\ pc = "failed"
        /\ err.kind = "UnexpectedToken"
        /\ err.token.kind = "Offset"
        /\ pos = 1

C3_Witness ==
    /\ Returned
    /\ source = SrcSwappedHeader
    /\ pc = "failed"
    /\ err.kind = "UnexpectedToken"

\* C4: after a valid header, a body made of any number of well-formed triples
\* followed by one or two more tokens of the right kinds (EventType, or
\* EventType Direction) fails with UnexpectedEof.
C4_MidTripleIsEof ==
    (Returned /\ ValidHeader(tokens)
        /\ BadIndices(tokens) = {}
        /\ (Len(tokens) - 4) % 3 # 0) =>
        /\ pc = "failed"
        /\ err.kind = "UnexpectedEof"
        /\ pos = Len(tokens)

C4_Witness ==
    /\ Returned
    /\ ValidHeader(tokens)
    /\ BadIndices(tokens) = {}
    /\ Len(tokens) - 4 = 5
    /\ pc = "failed"
    /\ err.kind = "UnexpectedEof"

\* C5: after a valid header, when some body position holds a token of the
\* wrong kind, parsing fails with UnexpectedToken carrying the first such
\* token, and the iterator stands right after it: no later token is consumed.
C5_WrongKindIsUnexpectedToken ==
    (Returned /\ ValidHeader(tokens)
        /\ BadIndices(tokens) # {}) =>
        LET i == Min(BadIndices(tokens))
        IN  /\ pc = "failed"
            /\ err.kind = "UnexpectedToken"
            /\ err.token = tokens[i]
            /\ pos = i

\* a wrong token in the third position of the second triple, with tokens
\* left after it
C5_Witness ==
    /\ Returned
    /\ ValidHeader(tokens)
    /\ BadIndices(tokens) # {}
    /\ Min(BadIndices(tokens)) = 10
    /\ Len(tokens) > 10
    /\ pc = "failed"
    /\ err.kind = "UnexpectedToken"
    /\ pos = 10

\* start_offset plus the durations of the first i time offsets of the body
RECURSIVE ChainedTime(_, _, _, _)
ChainedTime(toks, bpm, start_offset, i) ==
    IF i = 0 THEN start_offset
    ELSE RAdd(ChainedTime(toks, bpm, start_offset, i - 1),
              TimeOffsetTime(toks[4 + 3 * i].value, bpm))

\* C6: in a successfully parsed chart, tempo and start_offset are the header's
\* two numbers as written, and event i arrives at start_offset plus the sum of
\* the durations of the time offsets of events 1..i.
C6_ChainedTiming ==
    (pc = "parsed") =>
        /\ sheet.bpm = tokens[2].value
        /\ sheet.start_offset = tokens[4].value
        /\ 3 * Len(sheet.projectiles) = Len(tokens) - 4
        /\ \A i \in 1..Len(sheet.projectiles) :
              sheet.projectiles[i].arrival_time =
                  ChainedTime(tokens, sheet.bpm,
                              sheet.start_offset, i)

\* two events, a non-zero start offset, and a second event later than the
\* first by other than the first's own offset
C6_Witness ==
    /\ pc = "parsed"
    /\ Len(sheet.projectiles) = 2
    /\ sheet.start_offset # R(0)
    /\ tokens[7].value # tokens[10].value
    /\ sheet.projectiles[2].arrival_time # sheet.projectiles[1].arrival_time

\* an atom written with a time-offset separator that TimeOffset::parse accepts
InTimeOffsetSyntax(atom) ==
    /\ Find(atom, ";") > 0 \/ Find(atom, "|") > 0
    /\ TimeOffsetParse(atom).ok

\* C7: every atom that is a numeric literal, integer-form ones included, is
\* lexed as a Number token and not as a TimeOffset token, and no atom in
\* time-offset syntax is lexed as a Number token.
C7_NumericCategoriesDisjoint ==
    (Returned /\ Lexes(source)) =>
        \A i \in 1..Len(source) :
            /\ ParseF32(source[i]).ok => tokens[i].kind = "Number"
            /\ InTimeOffsetSyntax(source[i]) => tokens[i].kind # "Number"

----------------------------------------------------------------------------
(* Claims about the simulation, checked under Spec.  last.pre is the run   *)
(* state a frame started from, last.mid the state GameState::update left   *)
(* before its restart test, last.hits the classification of each of        *)
(* last.pre.projectiles, and last.cenv the Env they were classified in.    *)

\* the last frame started with no death in progress
AliveFrame == last.acted /\ last.pre.death = None

Shields == {None} \cup {Some(d) : d \in Direction}

\* the distance of the i-th projectile of the last frame when classified
LastDistance(i) == ProjectileDistance(last.pre.projectiles[i], last.cenv, sheet.bpm)

Indices(hit) == {i \in 1..Len(last.hits) : last.hits[i] = hit}

\* result is the class of an event of direction dir at distance d under
\* shield sh
ThreeWay(result, sh, dir, d) ==
    /\ result \in {"Blocked", "Hit", "None"}
    /\ result = "Blocked" <=> (sh = Some(dir) /\ RLt(d, R(48)))
    /\ result = "Hit" <=> (~(sh = Some(dir) /\ RLt(d, R(48))) /\ RLe(d, R(16)))
    /\ result = "None" <=> (~(sh = Some(dir) /\ RLt(d, R(48))) /\ ~RLe(d, R(16)))

\* C8: the class of an event is Blocked iff the shield equals its direction
\* and its distance is below 48, otherwise Hit iff its distance is at most 16,
\* otherwise Pending; for every shield, and for the shield of the frame.
C8_Classification ==
    AliveFrame =>
        \A i \in 1..Len(last.pre.projectiles) :
            /\ Len(last.hits) = Len(last.pre.projectiles)
            /\ ThreeWay(last.hits[i], last.mid.shield,
                        last.pre.projectiles[i].direction, LastDistance(i))
            /\ \A sh \in Shields :
                  ThreeWay(ProjectileUpdate(last.pre.projectiles[i], last.cenv,
                                            sh, sheet.bpm),
                           sh, last.pre.projectiles[i].direction, LastDistance(i))

\* one frame with a matching shield at distance <= 16 (Blocked), a mismatched
\* shield at distance exactly 16 (Hit) and a matching shield at distance
\* exactly 48 (Pending)
C8_Witness ==
    /\ AliveFrame
    /\ \E i \in Indices("Blocked") :
          /\ RLe(LastDistance(i), R(16))
          /\ last.mid.shield = Some(last.pre.projectiles[i].direction)
    /\ \E i \in Indices("Hit") :
          /\ LastDistance(i) = R(16)
          /\ last.mid.shield # Some(last.pre.projectiles[i].direction)
    /\ \E i \in Indices("None") :
          /\ LastDistance(i) = R(48)
          /\ last.mid.shield = Some(last.pre.projectiles[i].direction)

\* the projectiles not classified Blocked, in their order
RECURSIVE KeepUnblocked(_, _)
KeepUnblocked(ps, hits) ==
    IF ps = <<>> THEN <<>>
    ELSE (IF Head(hits) = "Blocked" THEN <<>> ELSE <<Head(ps)>>)
            \o KeepUnblocked(Tail(ps), Tail(hits))

\* C9: an alive frame removes exactly the live events classified Blocked,
\* keeping the others in their order, and adds one to the score for each.
C9_BlockedRemovedAndScored ==
    AliveFrame =>
        /\ last.mid.projectiles = KeepUnblocked(last.pre.projectiles, last.hits)
        /\ last.mid.score = last.pre.score + Cardinality(Indices("Blocked"))

\* two events blocked in one frame, a third one kept
C9_Witness ==
    /\ AliveFrame
    /\ Cardinality(Indices("Blocked")) = 2
    /\ Len(last.mid.projectiles) = 1
    /\ last.mid.score = last.pre.score + 2

\* C10: an alive frame with an event classified Hit keeps that event and
\* leaves death_progress = 0.0; death_progress becomes set only in a frame
\* with an event classified Hit; a frame that starts in the death state
\* classifies nothing and never brings death_progress back to 0.0.
C10_HitStartsDeath ==
    last.acted =>
        /\ (AliveFrame /\ Indices("Hit") # {}) =>
              /\ last.mid.death = Some(R(0))
              /\ \A i \in Indices("Hit") :
                    \E j \in 1..Len(last.mid.projectiles) :
                        last.mid.projectiles[j] = last.pre.projectiles[i]
        /\ (last.pre.death = None /\ last.mid.death # None) => Indices("Hit") # {}
        /\ last.pre.death # None =>
              /\ last.hits = <<>>
              /\ last.mid.death # None
              /\ last.mid.death # Some(R(0))
              /\ RLe(last.pre.death[1], last.mid.death[1])

\* a Hit and a Blocked in the frame that starts the death
C10_Witness ==
    /\ AliveFrame
    /\ Indices("Hit") # {}
    /\ Indices("Blocked") # {}
    /\ last.mid.death = Some(R(0))
    /\ Len(last.mid.projectiles) = Len(last.pre.projectiles) - 1

----------------------------------------------------------------------------
(* Claims about death, restart, time and the shield, checked under Spec *)

\* the last frame started with a death in progress
DyingFrame == last.acted /\ last.pre.death # None

\* C11: a frame that starts with a death in progress and has no restart
\* request adds exactly the unscaled frame time to the death timer and
\* leaves the shield, the score, the live projectiles and the approach
\* speed as they were, whatever keys are pressed.
C11_DyingFrameEffect ==
    (DyingFrame /\ ~last.restart) =>
        /\ death = Some(RAdd(last.pre.death[1], last.dt))
        /\ shield = last.pre.shield
        /\ score = last.pre.score
        /\ projectiles = last.pre.projectiles
        /\ env.speed = last.pre.env.speed

\* a dying frame past the first, with live projectiles and a pressed key
\* that differs from the shield
C11_Witness ==
    /\ DyingFrame
    /\ ~last.restart
    /\ RLt(R(0), last.pre.death[1])
    /\ projectiles # <<>>
    /\ \E d \in last.pressed : Some(d) # shield

\* C12: a run starts alive; a frame that starts dying and has no restart
\* request ends dying, however large the death timer; a frame with a
\* restart request ends alive, so restart is the only way from dying to
\* alive.
C12_DyingUntilRestart ==
    /\ (pc = "run" /\ ~last.acted) => death = None
    /\ (DyingFrame /\ ~last.restart) => death # None
    /\ (DyingFrame /\ death = None) => last.restart
    /\ (last.acted /\ last.restart) => death = None

\* a dying frame that ends with the death timer above one second
C12_Witness ==
    /\ DyingFrame
    /\ ~last.restart
    /\ death # None
    /\ RLt(R(1), death[1])

\* the state GameState::new builds from the loaded chart
InitialState ==
    [shield |-> None, env |-> [time |-> R(0), speed |-> R(128)],
     projectiles |-> sheet.projectiles, score |-> 0, death |-> None]

\* C13: a frame with a restart request, alive or dying, whatever its
\* projectiles did, ends in the initial state: every chart event live in
\* chart order, elapsed time 0, approach speed 128, no shield, score 0, no
\* death.
C13_RestartResets ==
    (last.acted /\ last.restart) => RunState = InitialState

\* a restart in the frame of a Hit and of a Blocked, after an earlier frame
C13_Witness ==
    /\ last.acted
    /\ last.restart
    /\ Indices("Hit") # {}
    /\ Indices("Blocked") # {}
    /\ last.pre.env.time # R(0)
    /\ RunState = InitialState

\* C14: a restart request in the frame after a frame with a restart
\* request leaves the state as the first restart left it, whatever the
\* frame time and the keys of the second frame.
C14_RestartIdempotent ==
    (last.acted /\ last.restart /\ last.after_restart) => RunState = last.pre

\* two restarts in successive frames, the second with keys pressed
C14_Witness ==
    /\ last.acted
    /\ last.restart
    /\ last.after_restart
    /\ last.pressed # {}
    /\ RunState = last.pre

\* C15 as stated: once the frames of a death, counted from a death timer
\* of 0, have frame times summing to exactly one second, the amounts they
\* added to the elapsed time sum to strictly less than one second.
C15_RampBelowOneSecond ==
    (death # None /\ last.ramp.real = R(1)) => RLt(last.ramp.eff, R(1))

\* C15, amended: those amounts sum to at most one second; to strictly less
\* when the second is spread over two or more frames; and to the whole
\* second when it is a single frame, which runs at the scale read at its
\* start.
C15_RampAtMostOneSecond ==
    (death # None /\ last.ramp.real = R(1)) =>
        /\ RLe(last.ramp.eff, R(1))
        /\ last.ramp.frames >= 2 => RLt(last.ramp.eff, R(1))
        /\ last.ramp.frames = 1 => last.ramp.eff = R(1)

\* one second of death spread over three frames
C15_Witness ==
    /\ death # None
    /\ last.ramp.real = R(1)
    /\ last.ramp.frames = 3
    /\ RLt(last.ramp.eff, R(1))

\* the amount the claim gives for the last frame: the frame time scaled by
\* max(0, 1 - death timer), the timer read at the start of the frame
EffectiveDt ==
    IF last.pre.death = None THEN last.dt
    ELSE IF RLe(R(1), last.pre.death[1]) THEN R(0)
    ELSE RMul(last.dt, RSub(R(1), last.pre.death[1]))

\* C16: every frame adds exactly frame time * max(0, 1 - death timer) to
\* the elapsed time, so the elapsed time never decreases within a frame
\* and is constant in a frame that starts with the timer at one second or
\* more; only a restart request changes it afterwards.
C16_ElapsedTime ==
    last.acted =>
        /\ last.mid.env.time = RAdd(last.pre.env.time, EffectiveDt)
        /\ RLe(last.pre.env.time, last.mid.env.time)
        /\ (DyingFrame /\ RLe(R(1), last.pre.death[1])) =>
               last.mid.env.time = last.pre.env.time
        /\ ~last.restart => env.time = last.mid.env.time

\* a frame that starts with the death timer above one second
C16_Witness ==
    /\ DyingFrame
    /\ ~last.restart
    /\ RLt(R(1), last.pre.death[1])
    /\ env.time = last.pre.env.time

\* C17: in an alive frame with no directional key pressed the shield is
\* unchanged, whatever the projectiles did; within a frame the shield
\* changes only in an alive frame with a key pressed, and never back to
\* none; after that only a restart request changes it.
C17_ShieldSticky ==
    last.acted =>
        /\ (AliveFrame /\ last.pressed = {}) => last.mid.shield = last.pre.shield
        /\ last.mid.shield # last.pre.shield => (AliveFrame /\ last.pressed # {})
        /\ last.pre.shield # None => last.mid.shield # None
        /\ ~last.restart => shield = last.mid.shield
        /\ shield # last.pre.shield => (last.restart \/ last.pressed # {})

\* an alive frame with no key pressed in which the held shield blocks
C17_Witness ==
    /\ AliveFrame
    /\ ~last.restart
    /\ last.pressed = {}
    /\ Indices("Blocked") # {}
    /\ shield # None
    /\ shield = last.pre.shield

\* the place of a direction in the order of the key tests
KeyOrder(d) ==
    CASE d = "Up" -> 1 [] d = "Down" -> 2 [] d = "Left" -> 3 [] d = "Right" -> 4

\* C18: in an alive frame with directional keys pressed the shield becomes
\* the pressed direction that is last in the order Up, Down, Left, Right,
\* and the projectiles of that frame are classified against that shield.
C18_InputTieBreak ==
    (AliveFrame /\ last.pressed # {}) =>
        \E w \in last.pressed :
            /\ \A d \in last.pressed : KeyOrder(d) <= KeyOrder(w)
            /\ last.mid.shield = Some(w)
            /\ \A i \in 1..Len(last.hits) :
                   ThreeWay(last.hits[i], Some(w),
                            last.pre.projectiles[i].direction, LastDistance(i))

\* two keys pressed in one frame, neither the shield held before, and the
\* later one in the order blocks a projectile in that frame
C18_Witness ==
    /\ AliveFrame
    /\ Cardinality(last.pressed) >= 2
    /\ last.pre.shield \notin {Some(d) : d \in last.pressed}
    /\ \E i \in Indices("Blocked") :
           /\ last.mid.shield = Some(last.pre.projectiles[i].direction)
           /\ \E d \in last.pressed :
                  KeyOrder(d) < KeyOrder(last.pre.projectiles[i].direction)

\* C21: the approach speed is 128 at the start of a run and at every frame
\* boundary of an alive run it is 128 + 2 * elapsed time; in a dying run it
\* keeps the value it had at the end of the frame of the Hit.
C21_SpeedRamp ==
    pc = "run" =>
        /\ ~last.acted => env.speed = R(128)
        /\ death = None => env.speed = RAdd(R(128), RMul(R(2), env.time))
        /\ (DyingFrame /\ ~last.restart) => env.speed = last.pre.env.speed
        /\ death # None =>
               env.speed = RAdd(R(128), RMul(R(2), RSub(env.time, last.ramp.eff)))

\* a dying run of two frames or more whose elapsed time moved after the Hit
C21_Witness ==
    /\ pc = "run"
    /\ death # None
    /\ last.ramp.frames >= 2
    /\ RLt(R(0), last.ramp.eff)
    /\ RLt(R(128), env.speed)
    /\ env.speed = RAdd(R(128), RMul(R(2), RSub(env.time, last.ramp.eff)))

\* s can be had from t by deleting elements
RECURSIVE IsSubseq(_, _)
IsSubseq(s, t) ==
    IF s = <<>> THEN TRUE
    ELSE IF t = <<>> THEN FALSE
    ELSE IF Head(s) = Head(t) THEN IsSubseq(Tail(s), Tail(t))
    ELSE IsSubseq(s, Tail(t))

\* C22: at every frame boundary the score plus the number of live
\* projectiles is the number of events of the chart, and the live
\* projectiles are the chart's events with some deleted, in chart order.
C22_Conservation ==
    pc = "run" =>
        /\ score + Len(projectiles) = Len(sheet.projectiles)
        /\ IsSubseq(projectiles, sheet.projectiles)

\* a run that blocked, then restarted, then blocked and was hit
C22_Witness ==
    /\ pc = "run"
    /\ score >= 1
    /\ death # None
    /\ projectiles # <<>>
    /\ nframes >= 3
    /\ score + Len(projectiles) = Len(sheet.projectiles)

\* the elements of a sequence
Range(s) == {s[i] : i \in 1..Len(s)}

\* the last frame run on its projectiles in the order f
Reordered(f) ==
    UpdateBody([last.pre EXCEPT
                   !.projectiles = [i \in 1..Len(last.pre.projectiles) |->
                                       last.pre.projectiles[f[i]]]],
               sheet, last.dt, last.pressed)

\* C23: in an alive frame every live projectile, those after a Hit
\* included, is classified against the elapsed time, speed and shield of
\* that frame; so the removed projectiles, the score and the start of a
\* death are the same for every order of the live projectiles.
C23_OneEnvironmentPerFrame ==
    AliveFrame =>
        /\ Len(last.hits) = Len(last.pre.projectiles)
        /\ \A i \in 1..Len(last.hits) :
               last.hits[i] = ProjectileUpdate(last.pre.projectiles[i], last.cenv,
                                               last.mid.shield, sheet.bpm)
        /\ \A f \in Permutations(1..Len(last.pre.projectiles)) :
               \E r \in {Reordered(f)} :
                  /\ Range(r.projectiles) = Range(last.mid.projectiles)
                  /\ r.score = last.mid.score
                  /\ r.death = last.mid.death

\* a frame in which a projectile is blocked after an earlier one hit, so
\* that the score rises in the frame in which the death starts
C23_Witness ==
    /\ AliveFrame
    /\ last.mid.death = Some(R(0))
    /\ last.mid.score = last.pre.score + 1
    /\ \E i, j \in 1..Len(last.hits) :
           i < j /\ last.hits[i] = "Hit" /\ last.hits[j] = "Blocked"

\* C24: a projectile is never blocked in a frame whose elapsed time is at
\* most its arrival time, even under a matching shield; under a matching
\* shield it is blocked in an alive frame whose elapsed time is past its
\* arrival time, and it is never classified Hit.
C24_NoEarlyBlock ==
    AliveFrame =>
        \A i \in 1..Len(last.hits) :
            LET p == last.pre.projectiles[i]
            IN  /\ last.hits[i] = "Blocked" => RLt(p.arrival_time, last.mid.env.time)
                /\ (last.mid.shield = Some(p.direction)
                       /\ RLt(p.arrival_time, last.mid.env.time)) =>
                       last.hits[i] = "Blocked"
                /\ last.mid.shield = Some(p.direction) => last.hits[i] # "Hit"

\* a projectile exactly at its arrival time under a matching shield, kept
C24_Witness ==
    /\ AliveFrame
    /\ \E i \in 1..Len(last.hits) :
           /\ last.mid.shield = Some(last.pre.projectiles[i].direction)
           /\ last.pre.projectiles[i].arrival_time = last.mid.env.time
           /\ last.hits[i] = "None"
           /\ last.pre.projectiles[i] \in Range(last.mid.projectiles)

\* the last frame started and ended alive, with no restart request
AliveRunFrame == AliveFrame /\ ~last.restart /\ death = None

\* the distance of the i-th live projectile before and after the last frame
DistanceBefore(i) == ProjectileDistance(projectiles[i], last.pre.env, sheet.bpm)
DistanceAfter(i) == ProjectileDistance(projectiles[i], env, sheet.bpm)

\* C26 as stated: in an alive run every live projectile is strictly closer
\* at the end of a frame than it was at the end of the frame before.
C26_EventsApproach ==
    AliveRunFrame =>
        \A i \in 1..Len(projectiles) : RLt(DistanceAfter(i), DistanceBefore(i))

\* C26, amended: a live projectile is strictly closer at the end of a frame
\* when it arrives less than half the frame's approach speed, in seconds,
\* after the elapsed time at the end of the frame; one that arrives later
\* than that is strictly farther, because the speed grew.
C26_NearEventsApproach ==
    AliveRunFrame =>
        \A i \in 1..Len(projectiles) :
            \E ahead \in {RSub(projectiles[i].arrival_time, env.time)},
               half \in {RDiv(last.pre.env.speed, R(2))} :
                /\ RLt(ahead, half) => RLt(DistanceAfter(i), DistanceBefore(i))
                /\ RLt(half, ahead) => RLt(DistanceBefore(i), DistanceAfter(i))
                /\ ahead = half => DistanceAfter(i) = DistanceBefore(i)

\* an alive frame after which one live projectile is closer and another,
\* more than a minute ahead, is farther
C26_Witness ==
    /\ AliveRunFrame
    /\ \E i, j \in 1..Len(projectiles) :
           /\ RLt(DistanceAfter(i), DistanceBefore(i))
           /\ RLt(DistanceBefore(j), DistanceAfter(j))
           /\ RLt(R(60), RSub(projectiles[j].arrival_time, env.time))

----------------------------------------------------------------------------
(* A claim about the untouched game, checked under IdleSpec, and one about *)
(* the two copies of the simulation, checked under DualSpec                *)

\* the run is dying with no point scored and every chart event still live
DiedUntouched ==
    /\ pc = "run"
    /\ death # None
    /\ score = 0
    /\ projectiles = sheet.projectiles

\* C25: for a chart with a positive tempo and at least one event, when no
\* directional key and no restart key is ever pressed and frames keep
\* coming, the run eventually is dying, with score 0 and every chart event
\* still live.
C25_IdleRunDies == <>DiedUntouched

\* a run that died untouched in its third frame, after two alive frames
C25_Witness ==
    /\ DiedUntouched
    /\ nframes = 3
    /\ last.pre.death = None
    /\ last.pressed = {}
    /\ Indices("Hit") # {}

\* C27: fed the same chart, frame times and keys, the copy of the
\* simulation in main.rs has the same elapsed time, approach speed,
\* shield, score, death timer and live projectiles as the one in game.rs
\* after every frame.
C27_CopiesAgree ==
    pc = "run" => legacy = RunState

----------------------------------------------------------------------------
(* Claims about Projectile::distance and TimeOffset::time, checked under   *)
(* PureSpec                                                                *)

\* distance d at elapsed time t is on the side of 48 that the claim gives
SideOfShield(t, d) ==
    /\ t = call.arrival => d = R(48)
    /\ RLt(t, call.arrival) => RLt(R(48), d)
    /\ RLt(call.arrival, t) => RLt(d, R(48))

\* C19: for a positive tempo and a fixed positive approach speed, the
\* distance of a projectile at a later elapsed time is strictly smaller
\* than at an earlier one; it is exactly 48 at the arrival time, above 48
\* before it and below 48 after it.  For both copies of the function.
C19_DistanceDecreases ==
    (call.done /\ call.fn \in {"distance", "main_distance"}) =>
        /\ RLt(call.out2, call.out1)
        /\ SideOfShield(call.t1, call.out1)
        /\ SideOfShield(call.t2, call.out2)

\* a projectile seen at its arrival time and later
C19_Witness ==
    /\ call.done
    /\ call.fn = "distance"
    /\ call.t1 = call.arrival
    /\ call.out1 = R(48)
    /\ RLt(call.out2, R(48))

\* (fourths / 4 + beats + 4 * bars) * 60 / bpm
LinearTime(o, bpm) ==
    Norm((o.fourths + 4 * o.beats + 16 * o.bars) * 60 * bpm[2], 4 * bpm[1])

Units(f, b, n) == [fourths |-> f, beats |-> b, bars |-> n]

\* C20: for a positive tempo t, TimeOffset::time of {fourths f, beats b,
\* bars n} is (f / 4 + b + 4 n) * 60 / t seconds; so four fourths and one
\* beat both last 60 / t, and one bar and four beats both last 240 / t.
C20_TimeLinear ==
    (call.done /\ call.fn = "time") =>
        /\ call.out1 = LinearTime(call.offset, call.bpm)
        /\ call.offset \in {Units(4, 0, 0), Units(0, 1, 0)} =>
               call.out1 = RDiv(R(60), call.bpm)
        /\ call.offset \in {Units(0, 0, 1), Units(0, 4, 0)} =>
               call.out1 = RDiv(R(240), call.bpm)

\* an offset with all three parts, at a tempo that does not divide 60
C20_Witness ==
    /\ call.done
    /\ call.fn = "time"
    /\ call.offset = Units(3, 2, 1)
    /\ call.bpm = R(90)
    /\ call.out1 = <<9, 2>>

====
